---- MODULE Spec2Model ----
(***************************************************************************)
(* Model of sync_function/sync/app.py: a scheduled job that reads          *)
(* attendance rows, obtains a Zoho access token (cached in two SSM         *)
(* parameters, refreshed through the OAuth token endpoint) and posts the   *)
(* rows to the bulk-import endpoint.  Every blocking I/O call of a run is  *)
(* one atomic step; runs of the job may overlap and share the SSM store.   *)
(***************************************************************************)
EXTENDS Integers, Sequences, FiniteSets, TLC

(* ------------------------------ bounds -------------------------------- *)
MaxTicks == 1
TickStep == 300
\* longest result of the attendance query given to the row mapping
MaxRows == 2

\* Two runs of the job, which may overlap in any way.  Each is one
\* invocation of lambda_handler; what earlier invocations left behind is the
\* initial content of the store.
Runs == {1, 2}

(* ------------------------- program constants -------------------------- *)
ZOHO_TOKEN_SSM_KEY == "ZOHO_ACCESS_TOKEN"
ZOHO_TOKEN_EXPIRY_SSM_KEY == "ZOHO_ACCESS_TOKEN_EXPIRY"
ACCESS_TOKEN_GRACE_PERIOD == 300

(* ------------------------ environment inputs -------------------------- *)
\* lifetimes the provider may state in "expires_in" (seconds)
ExpiresInValues == {300, 600}
\* lifetime of the token an earlier run may have left in the store
SeedLifetimes == {600}
\* the same, when the provider gave the earlier run a longer-lived token
LongSeedLifetimes == {900}
\* bodies of rejecting token-endpoint responses
ErrorBodies == {"invalid_code", "access_denied"}
\* status codes of bulk-import responses
BulkStatusCodes == {200, 400}
\* rows the attendance query may return
Row(employeeId, eventTime, isCheckin) ==
    [employeeId |-> employeeId, eventTime |-> eventTime, isCheckin |-> isCheckin,
     downloadDate |-> eventTime]
RowE1In == Row("E1", "T1", "1")
RowE2Out == Row("E2", "T2", "0")
RecordInputs == {<< >>, <<RowE1In, RowE2Out>>}
\* every result of at most MaxRows rows over two employees and two times
EmployeeIds == {"E1", "E2"}
EventTimes == {"T1", "T2"}
CheckinFlags == {"1", "0"}
Rows == {Row(e, t, c) : e \in EmployeeIds, t \in EventTimes, c \in CheckinFlags}
RowSequences == UNION {[1..n -> Rows] : n \in 0..MaxRows}

(* ----------------------------- values --------------------------------- *)
\* An access token is an opaque string.  The model names it by the request
\* that obtained it (run, attempt) and carries with it what
\* the provider knows about it: when it was issued and its lifetime.
Tok(id, issued_at, expires_in) ==
    [id |-> id, issued_at |-> issued_at, expires_in |-> expires_in]
NoToken == Tok(<<0, 0>>, 0, 0)
NoResponse == [status_code |-> 0, text |-> "", access_token |-> NoToken, expires_in |-> 0]
NoRequest == [Authorization |-> NoToken, data |-> << >>]
NoBulkResponse == [status_code |-> 0, text |-> ""]
NoException == << >>
NoResult == [statusCode |-> 0]
NoParameters == << >>

\* isoformat() of the expiry taken in the local zone (PKT, UTC+5) but
\* labelled as UTC
isoformat_local(t) == <<"iso", t + 18000>>

\* datetime.isoformat() of an aware UTC datetime, and datetime.fromisoformat()
isoformat(t) == <<"iso", t>>
IsIsoString(s) == Len(s) = 2 /\ s[1] = "iso"
fromisoformat(s) == s[2]

VARIABLES
    ssm,          \* the SSM parameter store: parameter name -> string value
    clock,        \* datetime.now(timezone.utc), in seconds
    run,          \* per run: control position and local variables
    last_writer   \* history: per parameter, the refresh whose put wrote it last

vars == <<ssm, clock, run, last_writer>>

(* ------------------------- pure functions ------------------------------ *)
\* line 136 comparing the flag with the number 1: no row is a check-in
transform_records_for_zoho_int_flag(records) ==
    [i \in 1..Len(records) |->
        [empId |-> records[i].employeeId, checkOut |-> records[i].eventTime]]

\* lines 133-140
RECURSIVE transform_records_for_zoho(_)
transform_records_for_zoho(records) ==
    IF records = << >> THEN << >>
    ELSE LET record == Head(records)
             entry == IF record.isCheckin = "1"
                      THEN [empId |-> record.employeeId, checkIn |-> record.eventTime]
                      ELSE [empId |-> record.employeeId, checkOut |-> record.eventTime]
         IN <<entry>> \o transform_records_for_zoho(Tail(records))

success_response(message, data) ==
    [statusCode |-> 200,
     body |-> IF data = << >> THEN [message |-> message]
              ELSE [message |-> message, data |-> data]]

error_response(message) ==
    [statusCode |-> 500, body |-> [error |-> message]]

(* ------------------------------ store ---------------------------------- *)
\* ssm.put_parameter without Overwrite: an existing parameter keeps its value
put_ssm_parameter_no_overwrite(store, name, value) ==
    [k \in DOMAIN store \cup {name} |->
        IF k = name /\ k \notin DOMAIN store THEN value ELSE store[k]]

\* ssm.put_parameter(Name, Value, Overwrite=True) when the call succeeds
put_ssm_parameter(store, name, value) ==
    [k \in DOMAIN store \cup {name} |-> IF k = name THEN value ELSE store[k]]

\* the comparison of line 152 turned around
IsFresh_inverted(current_time, expiry_time) ==
    current_time >= expiry_time - ACCESS_TOKEN_GRACE_PERIOD

\* line 152: is the cached token still usable
IsFresh(current_time, expiry_time) ==
    current_time < expiry_time - ACCESS_TOKEN_GRACE_PERIOD

\* line 188 with the grace period taken off the stored expiry as well
ExpiryTime_early(now, expires_in) == now + expires_in - ACCESS_TOKEN_GRACE_PERIOD

\* line 188: datetime.now(timezone.utc) + timedelta(seconds=tokens["expires_in"])
ExpiryTime(now, expires_in) == now + expires_in

\* line 184 without the response body in the message
RefreshError_no_body(text) == <<"Failed to refresh Zoho access token">>

\* line 184: the message of the exception raised on a non-200 response
RefreshError(text) == <<"Failed to refresh Zoho access token: ", text>>

(* --------------------------- run-local state --------------------------- *)
IdleRun ==
    [pc |-> "idle",
     id |-> 0,                     \* the run
     records |-> << >>,            \* line 41
     zoho_data |-> << >>,          \* line 56
     access_token |-> NoToken,     \* line 146
     expiry_time |-> 0,       \* line 148
     branch |-> "none",            \* outcome of the cache lookup: fresh, stale, miss, error
     handler |-> "none",           \* clause of get_or_refresh that called refresh
     response |-> NoResponse,      \* line 179
     new_token |-> NoToken,        \* line 187
     issue_time |-> 0,        \* datetime.now() of line 188
     new_expiry |-> 0,        \* line 188
     returned |-> NoToken,         \* value of get_or_refresh_zoho_access_token
     request |-> NoRequest,        \* lines 199-206, the bulk-import request
     bulk_response |-> NoBulkResponse,  \* line 211
     exc |-> NoException,          \* exception raised by the run's last step
     result |-> NoResult,          \* value returned by lambda_handler
     calls |-> << >>]              \* external calls made by the run, in order

Call(op, name, ok) == [op |-> op, name |-> name, ok |-> ok]

Set(r, rec) == run' = [run EXCEPT ![r] = rec]

LastCall(l) == l.calls[Len(l.calls)]

\* number of requests to the token endpoint made by a run so far
TokenPosts(l) == Cardinality({i \in 1..Len(l.calls) : l.calls[i].op = "token_post"})

\* lambda_handler returns: the run's locals are gone; its result and the
\* trace of its calls (with what the attendance query returned) remain
Finish(l, result) ==
    [IdleRun EXCEPT !.pc = "done", !.id = l.id, !.branch = l.branch,
                    !.records = l.records,
                    !.result = result, !.exc = l.exc, !.calls = l.calls]

\* lambda_handler without its except clause: the exception leaves it
Fail_uncaught(l, e) == Finish([l EXCEPT !.exc = e], NoResult)

\* lambda_handler's "except Exception as e: return error_response(str(e))"
Fail(l, e) == Finish([l EXCEPT !.exc = e], error_response(e))

\* the Authorization header carrying the token read from the cache
BulkRequest_cached_token(l) == [Authorization |-> l.access_token, data |-> l.zoho_data]

\* lines 199-206: the Authorization header and the payload of the bulk import
BulkRequest(l) == [Authorization |-> l.returned, data |-> l.zoho_data]

\* send_to_zoho with response.raise_for_status() after the POST
BulkImportResult_raise_for_status(l, response) ==
    IF response.status_code >= 400
    THEN Fail(l, <<"Failed to send data to Zoho: ", "HTTPError">>)
    ELSE Finish(l, success_response("Data sent to Zoho successfully",
                      [status_code |-> response.status_code,
                       response_body |-> response.text]))

\* lines 213-219 and 67-70: any response received becomes the run's result
BulkImportResult(l, response) ==
    Finish(l, success_response("Data sent to Zoho successfully",
                 [status_code |-> response.status_code,
                  response_body |-> response.text]))

\* refresh_zoho_access_token logging a failure of its own and going on
RefreshRaises_swallowed(l, e) ==
    IF l.pc = "put_token" THEN [l EXCEPT !.pc = "put_expiry"]
    ELSE [l EXCEPT !.pc = "return"]

\* every except clause of get_or_refresh_zoho_access_token retrying once
RefreshRaises_retry_in_handlers(l, e) ==
    IF l.handler \in {"try", "ParameterNotFound"}
    THEN [l EXCEPT !.pc = "post", !.handler = "Exception", !.exc = e,
                   !.response = NoResponse, !.new_token = NoToken,
                   !.issue_time = 0, !.new_expiry = 0]
    ELSE Fail(l, e)

\* An exception e leaves refresh_zoho_access_token.  Raised under the try
\* block (line 157) it is caught by "except Exception" (line 161), which
\* calls refresh again (line 164); raised in an except clause it leaves
\* get_or_refresh_zoho_access_token and reaches lambda_handler.
RefreshRaises(l, e) ==
    IF l.handler = "try"
    THEN [l EXCEPT !.pc = "post", !.handler = "Exception", !.exc = e,
                   !.response = NoResponse, !.new_token = NoToken,
                   !.issue_time = 0, !.new_expiry = 0]
    ELSE Fail(l, e)

\* get_or_refresh_zoho_access_token without the except clauses: the failed
\* read reaches lambda_handler
ReadFails_propagated(l, clause) == Fail(l, <<clause>>)

\* lines 158-164: a failed read of the cache is handled by the except clause
\* that matches it, and both clauses call refresh
ReadFails(l, clause) ==
    [l EXCEPT !.pc = "post", !.handler = clause,
              !.branch = IF clause = "ParameterNotFound" THEN "miss" ELSE "error"]

\* the refresh attempt a run is executing, and the record of a put by it
Attempt(l) == <<l.id, TokenPosts(l)>>
Writer(l) == [attempt |-> Attempt(l), token |-> l.new_token, expiry |-> l.new_expiry]
EarlierRun(expires_in) ==
    [attempt |-> <<0, 1>>, token |-> Tok(<<0, 1>>, 0, expires_in),
     expiry |-> ExpiryTime(0, expires_in)]

(* ------------------------------ actions -------------------------------- *)
\* The store is empty before the first run, or holds the credential that an
\* earlier run cached at time 0.
CachedByEarlierRun(w) ==
    (ZOHO_TOKEN_SSM_KEY :> w.token) @@ (ZOHO_TOKEN_EXPIRY_SSM_KEY :> isoformat(w.expiry))

Init ==
    /\ \/ /\ ssm = NoParameters
          /\ last_writer = NoParameters
       \/ \E e \in SeedLifetimes :
             /\ ssm = CachedByEarlierRun(EarlierRun(e))
             /\ last_writer = [k \in DOMAIN ssm |-> EarlierRun(e)]
    /\ clock = 0
    /\ run = [r \in Runs |-> IdleRun]

\* lambda_handler without the test of line 51
HandleRecords_no_empty_check(l, records) ==
    [l EXCEPT !.pc = "get_token", !.records = records,
              !.zoho_data = transform_records_for_zoho(records)]

\* lines 42-61: what lambda_handler does with the rows the query returned
HandleRecords(l, records) ==
    IF records = << >>
    THEN Finish([l EXCEPT !.records = records],
                success_response("No data to send.", << >>))
    ELSE [l EXCEPT !.pc = "get_token", !.records = records,
                   !.zoho_data = transform_records_for_zoho(records)]

\* lines 37-61: the scheduler starts a run (the runs are interchangeable, so
\* the lower-numbered one starts first); the attendance query, which fails
\* or returns one of the given results, the empty check and the mapping
Fetch(r, results) ==
    /\ run[r].pc = "idle"
    /\ \A q \in Runs : q < r => run[q].pc # "idle"
    /\ LET l == [IdleRun EXCEPT !.id = r]
       IN \/ Set(r, Fail([l EXCEPT !.calls = <<Call("db", "", FALSE)>>],
                         <<"OperationalError">>))
          \/ \E records \in results :
                Set(r, HandleRecords([l EXCEPT !.calls = <<Call("db", "", TRUE)>>],
                                     records))
    /\ UNCHANGED <<ssm, clock, last_writer>>

Invoke(r) == Fetch(r, RecordInputs)

\* line 146: get_ssm_parameter(ZOHO_TOKEN_SSM_KEY)
GetToken(r) ==
    /\ run[r].pc = "get_token"
    /\ \/ \* the read succeeds
          /\ ZOHO_TOKEN_SSM_KEY \in DOMAIN ssm
          /\ Set(r, [run[r] EXCEPT !.pc = "get_expiry",
                        !.access_token = ssm[ZOHO_TOKEN_SSM_KEY],
                        !.calls = Append(@, Call("get", ZOHO_TOKEN_SSM_KEY, TRUE))])
       \/ \* ParameterNotFound, line 158
          /\ ZOHO_TOKEN_SSM_KEY \notin DOMAIN ssm
          /\ Set(r, ReadFails(
                       [run[r] EXCEPT !.calls = Append(@, Call("get", ZOHO_TOKEN_SSM_KEY, FALSE))],
                       "ParameterNotFound"))
       \/ \* any other failure of the read, line 161
          /\ Set(r, ReadFails(
                       [run[r] EXCEPT !.calls = Append(@, Call("get", ZOHO_TOKEN_SSM_KEY, FALSE))],
                       "Exception"))
    /\ UNCHANGED <<ssm, clock, last_writer>>

\* lines 147-148: get_ssm_parameter(ZOHO_TOKEN_EXPIRY_SSM_KEY), fromisoformat
GetExpiry(r) ==
    /\ run[r].pc = "get_expiry"
    /\ \/ /\ ZOHO_TOKEN_EXPIRY_SSM_KEY \in DOMAIN ssm
          /\ LET expiry_str == ssm[ZOHO_TOKEN_EXPIRY_SSM_KEY]
                 l == [run[r] EXCEPT
                          !.calls = Append(@, Call("get", ZOHO_TOKEN_EXPIRY_SSM_KEY, TRUE))]
             IN IF IsIsoString(expiry_str)
                THEN Set(r, [l EXCEPT !.pc = "check",
                                      !.expiry_time = fromisoformat(expiry_str)])
                ELSE \* ValueError, line 161
                     Set(r, ReadFails(l, "Exception"))
       \/ /\ ZOHO_TOKEN_EXPIRY_SSM_KEY \notin DOMAIN ssm
          /\ Set(r, ReadFails(
                       [run[r] EXCEPT !.calls = Append(@, Call("get", ZOHO_TOKEN_EXPIRY_SSM_KEY, FALSE))],
                       "ParameterNotFound"))
       \/ /\ Set(r, ReadFails(
                       [run[r] EXCEPT !.calls = Append(@, Call("get", ZOHO_TOKEN_EXPIRY_SSM_KEY, FALSE))],
                       "Exception"))
    /\ UNCHANGED <<ssm, clock, last_writer>>

\* lines 151-157 and 62-63: the freshness test
CheckExpiry(r) ==
    /\ run[r].pc = "check"
    /\ LET current_time == clock
       IN IF IsFresh(current_time, run[r].expiry_time)
          THEN Set(r, [run[r] EXCEPT !.pc = "send", !.branch = "fresh",
                                     !.returned = run[r].access_token])
          ELSE Set(r, [run[r] EXCEPT !.pc = "post", !.branch = "stale",
                                     !.handler = "try"])
    /\ UNCHANGED <<ssm, clock, last_writer>>

\* line 179: the token endpoint handles the request
PostToken(r) ==
    /\ run[r].pc = "post"
    /\ LET l == [run[r] EXCEPT !.exc = NoException,
                               !.calls = Append(@, Call("token_post", "", TRUE))]
       IN \/ \* the provider grants a token
             \E expires_in \in ExpiresInValues :
                Set(r, [l EXCEPT !.pc = "recv",
                           !.response = [status_code |-> 200, text |-> "",
                              access_token |-> Tok(<<l.id, TokenPosts(l)>>, clock, expires_in),
                              expires_in |-> expires_in]])
          \/ \* the provider rejects the request
             \E text \in ErrorBodies :
                Set(r, [l EXCEPT !.pc = "recv",
                           !.response = [status_code |-> 400, text |-> text,
                                         access_token |-> NoToken, expires_in |-> 0]])
          \/ \* requests.post raises: no response
             Set(r, RefreshRaises(
                       [l EXCEPT !.calls = Append(run[r].calls, Call("token_post", "", FALSE))],
                       <<"ConnectionError">>))
    /\ UNCHANGED <<ssm, clock, last_writer>>

\* lines 180-188: the response arrives
ReceiveToken(r) ==
    /\ run[r].pc = "recv"
    /\ LET response == run[r].response
       IN IF response.status_code # 200
          THEN Set(r, RefreshRaises(run[r],
                         RefreshError(response.text)))
          ELSE Set(r, [run[r] EXCEPT !.pc = "put_token",
                          !.new_token = response.access_token,
                          !.issue_time = clock,
                          !.new_expiry = ExpiryTime(clock, response.expires_in)])
    /\ UNCHANGED <<ssm, clock, last_writer>>

\* line 191 preceded by a delete_parameter of the old expiry
PutToken_delete_expiry(r) ==
    /\ run[r].pc = "put_token"
    /\ ssm' = (ZOHO_TOKEN_SSM_KEY :> run[r].new_token)
    /\ last_writer' = (ZOHO_TOKEN_SSM_KEY :> Writer(run[r]))
    /\ Set(r, [run[r] EXCEPT !.pc = "put_expiry",
                  !.calls = Append(@, Call("put", ZOHO_TOKEN_SSM_KEY, TRUE))])
    /\ UNCHANGED clock

\* line 191: put_ssm_parameter(ZOHO_TOKEN_SSM_KEY, access_token)
PutToken(r) ==
    /\ run[r].pc = "put_token"
    /\ \/ /\ ssm' = put_ssm_parameter(ssm, ZOHO_TOKEN_SSM_KEY, run[r].new_token)
          /\ last_writer' = (ZOHO_TOKEN_SSM_KEY :> Writer(run[r])) @@ last_writer
          /\ Set(r, [run[r] EXCEPT !.pc = "put_expiry",
                        !.calls = Append(@, Call("put", ZOHO_TOKEN_SSM_KEY, TRUE))])
       \/ /\ UNCHANGED <<ssm, last_writer>>
          /\ Set(r, RefreshRaises(
                       [run[r] EXCEPT !.calls = Append(@, Call("put", ZOHO_TOKEN_SSM_KEY, FALSE))],
                       <<"ClientError">>))
    /\ UNCHANGED clock

\* line 192: put_ssm_parameter(ZOHO_TOKEN_EXPIRY_SSM_KEY, expiry_time.isoformat())
PutExpiry(r) ==
    /\ run[r].pc = "put_expiry"
    /\ \/ /\ ssm' = put_ssm_parameter(ssm, ZOHO_TOKEN_EXPIRY_SSM_KEY,
                                      isoformat(run[r].new_expiry))
          /\ last_writer' = (ZOHO_TOKEN_EXPIRY_SSM_KEY :> Writer(run[r])) @@ last_writer
          /\ Set(r, [run[r] EXCEPT !.pc = "return",
                        !.calls = Append(@, Call("put", ZOHO_TOKEN_EXPIRY_SSM_KEY, TRUE))])
       \/ /\ UNCHANGED <<ssm, last_writer>>
          /\ Set(r, RefreshRaises(
                       [run[r] EXCEPT !.calls = Append(@, Call("put", ZOHO_TOKEN_EXPIRY_SSM_KEY, FALSE))],
                       <<"ClientError">>))
    /\ UNCHANGED clock

\* lines 194-195 and 62-63: refresh returns, get_or_refresh returns its value
RefreshReturn(r) ==
    /\ run[r].pc = "return"
    /\ Set(r, [run[r] EXCEPT !.pc = "send", !.returned = run[r].new_token])
    /\ UNCHANGED <<ssm, clock, last_writer>>

\* lines 66 and 198-211: send_to_zoho(zoho_data, access_token) posts the
\* request; the endpoint answers with some status, or the transport fails
SendToZoho(r) ==
    /\ run[r].pc = "send"
    /\ LET l == [run[r] EXCEPT !.pc = "bulk_recv", !.request = BulkRequest(run[r])]
       IN \/ \E status_code \in BulkStatusCodes :
                Set(r, [l EXCEPT !.bulk_response = [status_code |-> status_code,
                                                    text |-> "body"],
                                 !.calls = Append(@, Call("bulk_post", "", TRUE))])
          \/ Set(r, [l EXCEPT !.calls = Append(@, Call("bulk_post", "", FALSE))])
    /\ UNCHANGED <<ssm, clock, last_writer>>

\* lines 211-222 and 66-74: the call returns or raises, lambda_handler ends
ReceiveBulk(r) ==
    /\ run[r].pc = "bulk_recv"
    /\ IF LastCall(run[r]).ok
       THEN Set(r, BulkImportResult(run[r], run[r].bulk_response))
       ELSE Set(r, Fail(run[r], <<"Failed to send data to Zoho: ", "ConnectionError">>))
    /\ UNCHANGED <<ssm, clock, last_writer>>

\* time passes
Tick ==
    /\ clock + TickStep <= MaxTicks * TickStep
    /\ clock' = clock + TickStep
    /\ UNCHANGED <<ssm, run, last_writer>>

Step(r) ==
    \/ Invoke(r)
    \/ GetToken(r)
    \/ GetExpiry(r)
    \/ CheckExpiry(r)
    \/ PostToken(r)
    \/ ReceiveToken(r)
    \/ PutToken(r)
    \/ PutExpiry(r)
    \/ RefreshReturn(r)
    \/ SendToZoho(r)
    \/ ReceiveBulk(r)

Next == (\E r \in Runs : Step(r)) \/ Tick

Spec == Init /\ [][Next]_vars

\* The store is external to the job: it may also hold an expiry that the job
\* did not write and that does not parse as a timestamp.
InitForeign ==
    /\ \/ ssm = NoParameters
       \/ ssm = (ZOHO_TOKEN_SSM_KEY :> Tok(<<0, 1>>, 0, 600))
                 @@ (ZOHO_TOKEN_EXPIRY_SSM_KEY :> <<"2024-13-45">>)
    /\ last_writer = NoParameters
    /\ clock = 0
    /\ run = [r \in Runs |-> IdleRun]

SpecForeign == InitForeign /\ [][Next]_vars

\* The provider does not always state the same lifetime: the credential an
\* earlier run cached may outlive the tokens issued to the runs.
InitLongLived ==
    /\ \/ /\ ssm = NoParameters
          /\ last_writer = NoParameters
       \/ \E e \in LongSeedLifetimes :
             /\ ssm = CachedByEarlierRun(EarlierRun(e))
             /\ last_writer = [k \in DOMAIN ssm |-> EarlierRun(e)]
    /\ clock = 0
    /\ run = [r \in Runs |-> IdleRun]

SpecLongLived == InitLongLived /\ [][Next]_vars

\* The row mapping on every result of the attendance query up to MaxRows
\* rows: the runs only fetch and map.
FetchAny(r) == Fetch(r, RowSequences)

NextTransform == \E r \in Runs : FetchAny(r)

SpecTransform == Init /\ [][NextTransform]_vars

(* ------------------------------ claims --------------------------------- *)
StoreCalls(l, op) == {i \in 1..Len(l.calls) : l.calls[i].op = op}
Puts(l) == Cardinality(StoreCalls(l, "put"))
Refreshing(l) == l.branch \in {"stale", "miss", "error"}
InRefresh(l) == l.pc \in {"post", "recv", "put_token", "put_expiry", "return"}

\* C1: in every invocation of get_or_refresh_zoho_access_token that finds the
\* cache stale, missing, unparseable or unreadable, the token endpoint is
\* requested exactly once, whether the refresh succeeds or fails, and on
\* success the returned token is the newly issued one.
C1_RefreshExactlyOnce ==
    \A r \in Runs :
        /\ Refreshing(run[r]) => TokenPosts(run[r]) <= 1
        /\ Refreshing(run[r]) /\ run[r].pc = "send" =>
              /\ TokenPosts(run[r]) = 1
              /\ run[r].returned = run[r].new_token

\* C2: when a refresh fails (non-200 response or a store write failure),
\* get_or_refresh_zoho_access_token does not retry: the failure reaches the
\* orchestrator and the run ends in failure, in every branch that led to the
\* refresh.
C2_RefreshFailureNotRetried ==
    \A r \in Runs :
        run[r].exc # NoException =>
            /\ run[r].pc = "done"
            /\ run[r].result = error_response(run[r].exc)

\* C3: a credential (T, E) read successfully with now < E - 300 s is returned
\* as it is: the run takes the cache-hit branch, returns exactly T, sends no
\* request to the token endpoint and writes nothing to the store.
C3_FreshCacheReturned ==
    [][\A r \in Runs :
          run[r].pc = "check" /\ run'[r] # run[r]
          /\ clock < run[r].expiry_time - ACCESS_TOKEN_GRACE_PERIOD
          => /\ run'[r].pc = "send"
             /\ run'[r].branch = "fresh"
             /\ run'[r].returned = run[r].access_token
             /\ TokenPosts(run'[r]) = 0
             /\ Puts(run'[r]) = 0
             /\ ssm' = ssm]_vars

C3_Witness ==
    \E r \in Runs :
        /\ run[r].pc = "send"
        /\ run[r].branch = "fresh"
        /\ run[r].returned = run[r].access_token
        /\ run[r].returned # NoToken

Others(r) == Runs \ {r}
\* the refresh of run l has written both keys and is returning or has returned
Refreshed(l) == Refreshing(l) /\ l.pc \in {"return", "send"}
\* no other refresh has written either key after the refresh of run l did
NotOvertaken(l) ==
    \A k \in {ZOHO_TOKEN_SSM_KEY, ZOHO_TOKEN_EXPIRY_SSM_KEY} :
        last_writer[k].attempt = Attempt(l)
\* run l has read the credential that the refresh of run w stored, and has
\* tested its freshness at the clock value at which w computed the expiry
ReadsCredentialOf(l, w) ==
    /\ l.branch \in {"fresh", "stale"}
    /\ l.access_token = w.new_token
    /\ l.expiry_time = w.new_expiry
    /\ clock = w.issue_time

\* the statement C4 makes about a refresh of run w, for the lifetimes in E
RefreshThenCacheHit(E) ==
    \A w \in Runs :
        Refreshed(run[w]) /\ run[w].response.expires_in \in E =>
            /\ NotOvertaken(run[w]) =>
                  /\ ssm[ZOHO_TOKEN_SSM_KEY] = run[w].new_token
                  /\ IsIsoString(ssm[ZOHO_TOKEN_EXPIRY_SSM_KEY])
                  /\ fromisoformat(ssm[ZOHO_TOKEN_EXPIRY_SSM_KEY])
                        = run[w].issue_time + run[w].response.expires_in
            /\ \A r \in Others(w) :
                  ReadsCredentialOf(run[r], run[w]) =>
                      /\ run[r].branch = "fresh"
                      /\ run[r].returned = run[w].new_token
                      /\ TokenPosts(run[r]) = 0

\* C4 as stated: after any successful refresh, for every expires_in the
\* provider may return, the store holds the new token and an expiry equal to
\* issue_time + expires_in, and a subsequent get_or_refresh call at the same
\* clock value returns that token from the cache without a token request.
C4_AnyLifetimeCacheHit == RefreshThenCacheHit(ExpiresInValues)

\* C4 amended: the same, for every expires_in greater than the grace period
\* of 300 s (a token with a shorter lifetime is stale as soon as it is stored,
\* and the subsequent call refreshes again).
C4_LongLifetimeCacheHit ==
    RefreshThenCacheHit({e \in ExpiresInValues : e > ACCESS_TOKEN_GRACE_PERIOD})

C4_Witness ==
    \E w \in Runs : \E r \in Others(w) :
        /\ Refreshed(run[w])
        /\ run[w].response.expires_in > ACCESS_TOKEN_GRACE_PERIOD
        /\ NotOvertaken(run[w])
        /\ ReadsCredentialOf(run[r], run[w])
        /\ run[r].pc = "send"
        /\ run[r].returned = run[w].new_token

\* C5: in every reachable state of the store, if the token key and the expiry
\* key are both present, the stored expiry is the one that was computed for
\* the stored token.
C5_StoredPairConsistent ==
    {ZOHO_TOKEN_SSM_KEY, ZOHO_TOKEN_EXPIRY_SSM_KEY} \subseteq DOMAIN ssm =>
        ssm[ZOHO_TOKEN_EXPIRY_SSM_KEY] = isoformat(last_writer[ZOHO_TOKEN_SSM_KEY].expiry)

\* C6: a refresh whose token-endpoint response has a status other than 200
\* raises an error whose message contains the response body; nothing is
\* written between the request and the raise, and both keys are unchanged.
C6_RejectedRefreshRaises ==
    [][\A r \in Runs :
          run[r].pc = "recv" /\ run'[r] # run[r]
          /\ run[r].response.status_code # 200
          => /\ \E i \in 1..Len(run'[r].exc) : run'[r].exc[i] = run[r].response.text
             /\ run'[r].pc \in {"post", "done"}
             /\ LastCall(run[r]).op = "token_post"
             /\ run'[r].calls = run[r].calls
             /\ ssm' = ssm]_vars

C6_Witness ==
    \E r \in Runs :
        /\ Len(run[r].exc) = 2
        /\ run[r].exc[2] \in ErrorBodies
        /\ LastCall(run[r]).op = "token_post"
        /\ Puts(run[r]) = 0

C8_BothWritesAttempted ==
    [][\A r \in Runs :
          run'[r] # run[r] =>
             /\ run[r].pc = "put_token" => run'[r].pc = "put_expiry"
             /\ run[r].pc = "put_expiry" /\ ~LastCall(run'[r]).ok
                   => run'[r].exc # NoException /\ run'[r].pc \in {"post", "done"}]_vars

\* C8 amended: in a refresh that received a 200 response the token key is
\* written first and the expiry write is attempted only if the token write
\* succeeded; a failure of either write makes the refresh fail at once, the
\* error going to its caller, and leaves the store as it was.
C8_SecondWriteOnlyAfterFirst ==
    [][\A r \in Runs :
          run[r].pc \in {"put_token", "put_expiry"} /\ run'[r] # run[r] =>
             /\ Len(run'[r].calls) = Len(run[r].calls) + 1
             /\ LastCall(run'[r]).op = "put"
             /\ LastCall(run'[r]).name
                   = IF run[r].pc = "put_token" THEN ZOHO_TOKEN_SSM_KEY
                     ELSE ZOHO_TOKEN_EXPIRY_SSM_KEY
             /\ IF LastCall(run'[r]).ok
                THEN /\ run'[r].pc = IF run[r].pc = "put_token" THEN "put_expiry"
                                     ELSE "return"
                     /\ run'[r].exc = NoException
                ELSE /\ run'[r].pc \in {"post", "done"}
                     /\ run'[r].exc = <<"ClientError">>
                     /\ ssm' = ssm]_vars

C8_Witness ==
    \E r \in Runs :
        /\ run[r].exc = <<"ClientError">>
        /\ LastCall(run[r]) = Call("put", ZOHO_TOKEN_SSM_KEY, FALSE)
        /\ run[r].pc \in {"post", "done"}

\* C9: two overlapping runs that both read a stale credential both refresh;
\* each returns the token issued to itself; each key then holds the value
\* written by whichever run wrote that key last; and no run fails unless one
\* of its own calls failed or its own token request was rejected.
C9_OverlappingRefreshes ==
    /\ \A r \in Runs :
          run[r].pc = "done" /\ run[r].result.statusCode = 500 =>
              \/ ~LastCall(run[r]).ok
              \/ run[r].exc[2] \in ErrorBodies
    /\ \A r \in Runs : \A q \in Others(r) :
          /\ run[r].branch = "stale" /\ run[r].pc = "send"
          /\ run[q].branch = "stale" /\ run[q].pc = "send"
          => /\ run[r].returned = run[r].new_token
             /\ run[r].returned.id[1] = run[r].id
             /\ run[r].returned # run[q].returned
             /\ last_writer[ZOHO_TOKEN_SSM_KEY].attempt \in {Attempt(run[r]), Attempt(run[q])}
             /\ last_writer[ZOHO_TOKEN_EXPIRY_SSM_KEY].attempt \in {Attempt(run[r]), Attempt(run[q])}
             /\ ssm[ZOHO_TOKEN_SSM_KEY] = last_writer[ZOHO_TOKEN_SSM_KEY].token
             /\ fromisoformat(ssm[ZOHO_TOKEN_EXPIRY_SSM_KEY])
                   = last_writer[ZOHO_TOKEN_EXPIRY_SSM_KEY].expiry

\* both runs found the credential stale, both refreshed, and the two keys
\* were last written by different runs
C9_Witness ==
    \E r \in Runs : \E q \in Others(r) :
        /\ run[r].branch = "stale" /\ run[r].pc = "send"
        /\ run[q].branch = "stale" /\ run[q].pc = "send"
        /\ last_writer[ZOHO_TOKEN_SSM_KEY].attempt = Attempt(run[r])
        /\ last_writer[ZOHO_TOKEN_EXPIRY_SSM_KEY].attempt = Attempt(run[q])

\* the cache lookup of run l is over and gave it no credential to test: a
\* key was missing, a read failed, or the expiry did not parse
ReadFailed(l) ==
    /\ StoreCalls(l, "get") # {}
    /\ l.pc \notin {"get_expiry", "check"}
    /\ l.branch \notin {"fresh", "stale"}

\* C10: a store miss, an unparseable expiry or another read error never ends
\* the run by itself: the refresh follows, and when it succeeds the run holds
\* the newly issued token and is about to make the bulk-import call.
C10_ReadFailureFallsThrough ==
    \A r \in Runs :
        ReadFailed(run[r]) =>
            /\ run[r].pc \in {"post", "recv", "put_token", "put_expiry", "return",
                              "send", "bulk_recv", "done"}
            /\ LastCall(run[r]).op = "get" => run[r].pc = "post"
            /\ run[r].pc \in {"return", "send"} =>
                  /\ TokenPosts(run[r]) = 1
                  /\ run[r].new_token = run[r].response.access_token
                  /\ run[r].new_token.id = <<run[r].id, 1>>
            /\ run[r].pc = "send" => run[r].returned = run[r].new_token
            /\ run[r].pc = "done" => LastCall(run[r]).op \in {"token_post", "put", "bulk_post"}

\* the expiry was read but did not parse, and the refresh that followed gave
\* the run its token
C10_Witness ==
    \E r \in Runs :
        /\ ReadFailed(run[r])
        /\ run[r].pc = "send"
        /\ run[r].calls[3] = Call("get", ZOHO_TOKEN_EXPIRY_SSM_KEY, TRUE)
        /\ run[r].returned = run[r].new_token
        /\ run[r].returned # NoToken

\* the attendance query of run l succeeded and returned the rows it holds
Queried(l) == l.pc # "idle" /\ l.calls[1] = Call("db", "", TRUE)
BulkPosts(l) == Cardinality(StoreCalls(l, "bulk_post"))

\* C11: a run whose attendance query returns an empty result set ends with
\* the success result (status 200, "No data to send.") and makes no other
\* call: no store read, no store write, no token request, no bulk import.
C11_EmptyResultNothingSent ==
    \A r \in Runs :
        Queried(run[r]) /\ run[r].records = << >> =>
            /\ run[r].pc = "done"
            /\ run[r].result.statusCode = 200
            /\ run[r].result.body = [message |-> "No data to send."]
            /\ run[r].calls = <<Call("db", "", TRUE)>>
            /\ \A k \in DOMAIN last_writer : last_writer[k].attempt[1] # run[r].id

C11_Witness ==
    \E r \in Runs : \E q \in Others(r) :
        /\ Queried(run[r]) /\ run[r].records = << >>
        /\ run[r].pc = "done"
        /\ Queried(run[q]) /\ run[q].records # << >>

\* the response of the bulk-import endpoint as send_to_zoho returns it
Echo(response) == [status_code |-> response.status_code, response_body |-> response.text]

\* C12: in a run with a non-empty attendance result the bulk-import POST is
\* issued once if the token was acquired and not at all if it was not; it is
\* issued only by the step that follows the return of
\* get_or_refresh_zoho_access_token in that run, with exactly the token that
\* call returned and with the mapped rows in source order; and a run that
\* took a fresh token from the cache makes no token request and returns
\* status 200 with the response of the provider in it.
C12_BulkImportAfterToken ==
    [][\A r \in Runs :
          run'[r] # run[r] /\ run'[r].records # << >> =>
             /\ BulkPosts(run'[r]) <= 1
             /\ BulkPosts(run'[r]) > BulkPosts(run[r]) <=> run[r].pc = "send"
             /\ run[r].pc = "send" =>
                   /\ run[r].returned # NoToken
                   /\ run[r].returned = IF run[r].branch = "fresh"
                                        THEN run[r].access_token ELSE run[r].new_token
                   /\ run'[r].request.Authorization = run[r].returned
                   /\ run'[r].request.data = transform_records_for_zoho(run[r].records)
                   /\ \A i \in 1..Len(run[r].records) :
                         run'[r].request.data[i].empId = run[r].records[i].employeeId
             /\ run'[r].pc = "done" =>
                   BulkPosts(run'[r]) = IF run[r].pc = "bulk_recv" THEN 1 ELSE 0
             /\ run[r].pc = "bulk_recv" /\ run[r].branch = "fresh" /\ LastCall(run[r]).ok =>
                   /\ TokenPosts(run'[r]) = 0
                   /\ run'[r].pc = "done"
                   /\ run'[r].result.statusCode = 200
                   /\ run'[r].result.body.data = Echo(run[r].bulk_response)]_vars

\* the example of the specification: two rows, a fresh cached token, one POST
C12_Witness ==
    \E r \in Runs :
        /\ run[r].pc = "bulk_recv"
        /\ run[r].branch = "fresh"
        /\ run[r].records = <<RowE1In, RowE2Out>>
        /\ run[r].request = [Authorization |-> ssm[ZOHO_TOKEN_SSM_KEY],
                             data |-> <<[empId |-> "E1", checkIn |-> "T1"],
                                        [empId |-> "E2", checkOut |-> "T2"]>>]
        /\ run[r].calls = <<Call("db", "", TRUE),
                            Call("get", ZOHO_TOKEN_SSM_KEY, TRUE),
                            Call("get", ZOHO_TOKEN_EXPIRY_SSM_KEY, TRUE),
                            Call("bulk_post", "", TRUE)>>

\* the last call of run l raised, or got the rejection that line 184 raises on
CallRaised(l) ==
    \/ ~LastCall(l).ok
    \/ LastCall(l).op = "token_post" /\ l.exc = RefreshError(l.exc[Len(l.exc)])

\* C13: every run ends by returning a result, never by raising; the result
\* has status 500, with the text of the exception, exactly when the attendance
\* query, the token acquisition or the bulk-import transport raised, and
\* status 200 otherwise; the call that raised is the last call of the run.
C13_RunReturnsResult ==
    [][\A r \in Runs :
          /\ run'[r].pc = "done" =>
                /\ run'[r].result # NoResult
                /\ run'[r].result.statusCode \in {200, 500}
                /\ run'[r].result.statusCode = 500 <=> run'[r].exc # NoException
                /\ run'[r].exc # NoException =>
                      /\ run'[r].result.body = [error |-> run'[r].exc]
                      /\ CallRaised(run'[r])
                      /\ LastCall(run'[r]).op \in {"db", "token_post", "put", "bulk_post"}
                /\ run'[r].exc = NoException =>
                      /\ LastCall(run'[r]).ok
                      /\ LastCall(run'[r]).op \in {"db", "bulk_post"}
          /\ run[r].pc = "done" => run'[r] = run[r]]_vars

\* a run whose first refresh and whose retry were both rejected
C13_Witness ==
    \E r \in Runs :
        /\ run[r].pc = "done"
        /\ run[r].result.statusCode = 500
        /\ TokenPosts(run[r]) = 2
        /\ LastCall(run[r]) = Call("token_post", "", TRUE)

\* C14: whenever the bulk-import endpoint answers, with whatever status
\* code, the run returns the success envelope (status 200) holding the
\* status code and the body of that answer; the run returns status 500 for
\* this call only when the POST got no response.
C14_AnyBulkResponseIsSuccess ==
    [][\A r \in Runs :
          run[r].pc = "bulk_recv" /\ run'[r] # run[r] =>
             /\ run'[r].pc = "done"
             /\ run'[r].calls = run[r].calls
             /\ IF run[r].bulk_response # NoBulkResponse
                THEN /\ run[r].bulk_response.status_code \in BulkStatusCodes
                     /\ run'[r].result.statusCode = 200
                     /\ run'[r].result.body =
                           [message |-> "Data sent to Zoho successfully",
                            data |-> [status_code |-> run[r].bulk_response.status_code,
                                      response_body |-> run[r].bulk_response.text]]
                ELSE /\ LastCall(run[r]) = Call("bulk_post", "", FALSE)
                     /\ run'[r].result.statusCode = 500
                     /\ run'[r].result.body.error[1] = "Failed to send data to Zoho: "]_vars

\* the provider answered 400 and the run returned status 200 with it
C14_Witness ==
    \E r \in Runs :
        /\ run[r].pc = "done"
        /\ LastCall(run[r]) = Call("bulk_post", "", TRUE)
        /\ run[r].result.statusCode = 200
        /\ run[r].result.body.data.status_code = 400

\* C15: transform_records_for_zoho gives one entry per row, at the row's
\* position: {empId, checkIn} with the row's employeeId and eventTime for
\* isCheckin "1", {empId, checkOut} for isCheckin "0", and no other field;
\* the output has the length and the order of the input.
C15_TransformRowByRow ==
    \A r \in Runs :
        Queried(run[r]) /\ run[r].records # << >> =>
            LET records == run[r].records
                zoho_data == run[r].zoho_data
            IN /\ Len(zoho_data) = Len(records)
               /\ DOMAIN zoho_data = 1..Len(records)
               /\ \A i \in 1..Len(records) :
                     /\ records[i].isCheckin = "1" =>
                           zoho_data[i] = [empId |-> records[i].employeeId,
                                           checkIn |-> records[i].eventTime]
                     /\ records[i].isCheckin = "0" =>
                           zoho_data[i] = [empId |-> records[i].employeeId,
                                           checkOut |-> records[i].eventTime]
                     /\ DOMAIN zoho_data[i] \in {{"empId", "checkIn"},
                                                 {"empId", "checkOut"}}

\* a check-out followed by a check-in of the same employee, mapped in order
C15_Witness ==
    \E r \in Runs :
        /\ run[r].records = <<Row("E2", "T1", "0"), Row("E2", "T2", "1")>>
        /\ run[r].zoho_data = <<[empId |-> "E2", checkOut |-> "T1"],
                                [empId |-> "E2", checkIn |-> "T2"]>>

\* C16: the store is changed only by refresh_zoho_access_token after a 200
\* response of the token endpoint, one key at a time; the cache lookup, the
\* orchestrator and the bulk-import step leave both keys as they are; and no
\* step removes a key: a key that is present stays present.
C16_OnlyRefreshWritesStore ==
    [][/\ DOMAIN ssm \subseteq DOMAIN ssm'
       /\ \A r \in Runs :
             run'[r] # run[r] /\ run[r].pc \notin {"put_token", "put_expiry"}
                => ssm' = ssm
       /\ ssm' # ssm =>
             \E r \in Runs :
                /\ run'[r] # run[r]
                /\ run[r].pc \in {"put_token", "put_expiry"}
                /\ run[r].response.status_code = 200
                /\ LastCall(run'[r]).op = "put" /\ LastCall(run'[r]).ok
                /\ \A k \in DOMAIN ssm : k # LastCall(run'[r]).name => ssm'[k] = ssm[k]
                /\ DOMAIN ssm' = DOMAIN ssm \cup {LastCall(run'[r]).name}]_vars

\* a refresh has overwritten the token that was in the store
C16_Witness ==
    \E r \in Runs :
        /\ run[r].pc = "put_expiry"
        /\ ZOHO_TOKEN_EXPIRY_SSM_KEY \in DOMAIN ssm
        /\ ssm[ZOHO_TOKEN_SSM_KEY] = run[r].new_token
        /\ ssm[ZOHO_TOKEN_EXPIRY_SSM_KEY] = isoformat(EarlierRun(600).expiry)

\* C17: under every interleaving of overlapping runs and every failure of a
\* store write, a token that get_or_refresh_zoho_access_token returns from
\* the cache is not yet expired at the provider when it is returned: the
\* clock is before the issue time of that token plus its own expires_in.
C17_CacheHitTokenNotExpired ==
    [][\A r \in Runs :
          run[r].pc = "check" /\ run'[r].pc = "send" /\ run'[r].branch = "fresh" =>
             clock < run'[r].returned.issued_at + run'[r].returned.expires_in]_vars

\* position of a run in lambda_handler, and the steps it can still take: a
\* refresh started under the try block can be started once more
PcRank(pc) ==
    CASE pc = "idle" -> 11 [] pc = "get_token" -> 10 [] pc = "get_expiry" -> 9
      [] pc = "check" -> 8 [] pc = "post" -> 7 [] pc = "recv" -> 6
      [] pc = "put_token" -> 5 [] pc = "put_expiry" -> 4 [] pc = "return" -> 3
      [] pc = "send" -> 2 [] pc = "bulk_recv" -> 1 [] pc = "done" -> 0
StepsLeft(l) ==
    PcRank(l.pc) + IF l.pc # "done" /\ l.handler \in {"none", "try"} THEN 7 ELSE 0
\* the step from l to m is a failure of the refresh that l is executing
RefreshFailed(l, m) ==
    /\ InRefresh(l)
    /\ \/ l.pc = "recv" /\ l.response.status_code # 200
       \/ Len(m.calls) > Len(l.calls) /\ ~LastCall(m).ok

\* C18: one invocation of get_or_refresh_zoho_access_token sends at most two
\* requests to the token endpoint and terminates (every step of a run brings
\* it nearer to its end); a second request is sent only when the first
\* refresh was started from the stale branch, under the try block, and
\* failed; a refresh started by the ParameterNotFound handler or by the
\* generic handler is attempted once and its failure ends the run at once.
C18_AtMostTwoTokenRequests ==
    [][\A r \in Runs :
          run'[r] # run[r] =>
             /\ StepsLeft(run'[r]) < StepsLeft(run[r])
             /\ TokenPosts(run'[r]) <= 2
             /\ TokenPosts(run'[r]) = 2 /\ TokenPosts(run[r]) = 1 =>
                   /\ run[r].branch = "stale"
                   /\ run[r].handler = "Exception"
                   /\ run[r].exc # NoException
             /\ RefreshFailed(run[r], run'[r]) =>
                   IF run[r].handler = "try"
                   THEN /\ run[r].branch = "stale"
                        /\ run'[r].pc = "post"
                        /\ TokenPosts(run'[r]) = 1
                   ELSE /\ run'[r].pc = "done"
                        /\ run'[r].result.statusCode = 500
                        /\ run[r].branch \in {"miss", "error"} => TokenPosts(run'[r]) = 1
                        /\ run[r].branch = "stale" => TokenPosts(run'[r]) = 2]_vars

\* a refresh started by the ParameterNotFound handler failed and ended the run
C18_Witness ==
    \E r \in Runs :
        /\ run[r].pc = "done"
        /\ run[r].branch = "miss"
        /\ run[r].result.statusCode = 500
        /\ TokenPosts(run[r]) = 1
        /\ \E q \in Others(r) : TokenPosts(run[q]) = 2

====
